---------------------------- MODULE Spec2Model ----------------------------
(***************************************************************************)
(* Model of meshroom/nodes/aliceVision/LdrToHdrCalibration.py:             *)
(*   findMetadata                      tolerant metadata key lookup        *)
(*   LdrToHdrCalibration.getExposure   exposure value of a triple          *)
(*   LdrToHdrCalibration.update        bracket count of the node           *)
(*                                                                         *)
(* Strings are sequences of one-character strings, so that lower(),        *)
(* replace(" ", "") and split(sep)[-1] are computed on the characters.     *)
(* Floats are integers; the float +inf is the value PosInf.  An exposure   *)
(* value is an exact fraction <<numerator, denominator>>.  The metadata    *)
(* values of the model (0, 1, 2, 4, 100, +inf) are values on which the     *)
(* float arithmetic of getExposure is exact.                               *)
(***************************************************************************)
EXTENDS Integers, Sequences, FiniteSets

(***************************************************************************)
(* Bounds of the model.                                                    *)
(***************************************************************************)
MaxKeyLen == 3
MaxViews == 2
MaxGroupViews == 3
MaxUserNbBrackets == 2
MaxChain == 2

(***************************************************************************)
(* String helpers.                                                         *)
(***************************************************************************)
Upper == <<"A","B","C","D","E","F","G","H","I","J","K","L","M",
           "N","O","P","Q","R","S","T","U","V","W","X","Y","Z">>
LowerLetters == <<"a","b","c","d","e","f","g","h","i","j","k","l","m",
           "n","o","p","q","r","s","t","u","v","w","x","y","z">>

\* str.lower() on one character
LowerOf == [i \in 1..26 |-> LowerLetters[i]]
UpperIndex == [c \in {Upper[i] : i \in 1..26} |-> CHOOSE i \in 1..26 : Upper[i] = c]
LowerChar(c) == IF c \in DOMAIN UpperIndex THEN LowerOf[UpperIndex[c]] ELSE c

\* str.lower()
Lower(s) == [i \in 1..Len(s) |-> LowerChar(s[i])]

\* str.replace(" ", "")
RemoveSpaces(s) == SelectSeq(s, LAMBDA c : c # " ")

\* str.split(sep)[-1]: the text after the last occurrence of sep
SplitLast(s, sep) ==
    LET hits == {i \in 1..Len(s) : s[i] = sep}
        last == IF hits = {} THEN 0 ELSE CHOOSE i \in hits : \A j \in hits : j <= i
    IN  SubSeq(s, last + 1, Len(s))

(***************************************************************************)
(* findMetadata(d, keys, defaultValue).  d is the dict as the sequence of  *)
(* its <<key, value>> items in iteration order (keys pairwise distinct).   *)
(***************************************************************************)
\* d.get(key, None) is not None
DictHas(d, key) == \E i \in 1..Len(d) : d[i][1] = key

DictGet(d, key) == d[CHOOSE i \in 1..Len(d) : d[i][1] = key][2]

\* the inner loop without its second test (no namespace prefix is stripped)
ItemMatchesNoPrefix(dk, key) ==
    LET dkm == RemoveSpaces(Lower(dk))
    IN  dkm = Lower(key)

\* the two tests of the inner loop for one item (dk, dv)
ItemMatches(dk, key) ==
    LET dkm == RemoveSpaces(Lower(dk))
        k   == Lower(key)
    IN  \/ dkm = Lower(key)
        \/ SplitLast(SplitLast(dkm, ":"), "/") = k

\* for dk, dv in d.items(): index of the first item that returns, 0 if none
FirstItem(d, key) ==
    LET hits == {i \in 1..Len(d) : ItemMatches(d[i][1], key)}
    IN  IF hits = {} THEN 0 ELSE CHOOSE i \in hits : \A j \in hits : i <= j

\* one iteration of "for key in keys" returns
KeyFound(d, key) == DictHas(d, key) \/ FirstItem(d, key) # 0

\* the value it returns
KeyValue(d, key) ==
    IF DictHas(d, key) THEN DictGet(d, key) ELSE d[FirstItem(d, key)][2]

RECURSIVE findMetadataFrom(_, _, _, _)
findMetadataFrom(d, keys, n, defaultValue) ==
    IF n > Len(keys) THEN defaultValue
    ELSE IF KeyFound(d, keys[n]) THEN KeyValue(d, keys[n])
    ELSE findMetadataFrom(d, keys, n + 1, defaultValue)

findMetadata(d, keys, defaultValue) == findMetadataFrom(d, keys, 1, defaultValue)

(***************************************************************************)
(* Floats.                                                                 *)
(***************************************************************************)
\* float("inf"), as json.loads reads Infinity or 1e999
PosInf == 1000000

\* math.isfinite
isfinite(x) == x # PosInf

\* math.sqrt on the perfect squares of the model
Sqrt(x) == CHOOSE r \in 0..x : r * r = x

\* pow(2.0, aperture / 2.0), for the even APEX values of the model
Pow2Half(aperture) == 2 ^ (aperture \div 2)

\* fractions <<numerator, denominator>>, denominator > 0
FracLess(a, b) == a[1] * b[2] < b[1] * a[2]
FracEq(a, b) == a[1] * b[2] = b[1] * a[2]
\* truth value of a float: 0.0 is false
FracTruthy(a) == a[1] # 0

(***************************************************************************)
(* LdrToHdrCalibration.getExposure(exp, refIso, refFnumber)                *)
(***************************************************************************)
\* newFnumber = fnumber * isoToAperture
FracScale(x, a) == <<x * a[1], a[2]>>
\* lRefFnumber / newFnumber
FracUnder(x, a) == <<x * a[2], a[1]>>
FracSquare(a) == <<a[1] * a[1], a[2] * a[2]>>
FracMul(a, b) == <<a[1] * b[1], a[2] * b[2]>>

\* isoToAperture = sqrt(iso / refIso), 1.0 without the correction
isoToAperture(iso, refIso) ==
    IF iso > 0 /\ refIso > 0 THEN <<Sqrt(iso), Sqrt(refIso)>> ELSE <<1, 1>>

\* the value returned once shutterSpeed, fnumber and lRefFnumber are set
ExposureValue(shutterSpeed, fnumber, lRefFnumber, iso, refIso) ==
    \* sqrt(inf) = inf, fnumber * inf = inf, (lRefFnumber / inf) ^ 2 = 0.0
    IF iso > 0 /\ refIso > 0 /\ ~isfinite(iso) THEN <<0, 1>>
    ELSE FracMul(shutterSpeed,
             FracSquare(FracUnder(lRefFnumber,
                 FracScale(fnumber, isoToAperture(iso, refIso)))))

ValidFloat(x) == x > 0 /\ isfinite(x)

getExposure(exp, refIso, refFnumber) ==
    IF ~ValidFloat(exp[2]) /\ ~ValidFloat(exp[1]) THEN <<-1, 1>>
    ELSE ExposureValue(
             \* shutterSpeed = 1.0 / 200.0 if not validShutterSpeed
             IF ValidFloat(exp[2]) THEN <<exp[2], 1>> ELSE <<1, 200>>,
             \* fnumber = refFnumber (or 2.0) if not validFnumber
             IF ValidFloat(exp[1]) THEN exp[1]
             ELSE IF ValidFloat(refFnumber) THEN refFnumber ELSE 2,
             \* lRefFnumber
             IF ValidFloat(refFnumber) THEN refFnumber
             ELSE IF ValidFloat(exp[1]) THEN exp[1] ELSE 2,
             exp[3], refIso)

(***************************************************************************)
(* The key aliases update() looks up.                                      *)
(***************************************************************************)
K_FNumber ==
    <<"F","N","u","m","b","e","r">>
K_ExifApertureValue ==
    <<"E","x","i","f",":","A","p","e","r","t","u","r","e","V","a","l","u","e">>
K_ApertureValue ==
    <<"A","p","e","r","t","u","r","e","V","a","l","u","e">>
K_Aperture ==
    <<"A","p","e","r","t","u","r","e">>
K_ExposureTime ==
    <<"E","x","p","o","s","u","r","e","T","i","m","e">>
K_ExifShutterSpeedValue ==
    <<"E","x","i","f",":","S","h","u","t","t","e","r","S","p","e","e","d","V","a","l","u","e">>
K_ShutterSpeedValue ==
    <<"S","h","u","t","t","e","r","S","p","e","e","d","V","a","l","u","e">>
K_ShutterSpeed ==
    <<"S","h","u","t","t","e","r","S","p","e","e","d">>
K_ExifPhotographicSensitivity ==
    <<"E","x","i","f",":","P","h","o","t","o","g","r","a","p","h","i","c","S","e","n","s","i","t","i","v","i","t","y">>
K_PhotographicSensitivity ==
    <<"P","h","o","t","o","g","r","a","p","h","i","c","S","e","n","s","i","t","i","v","i","t","y">>
K_Photographic_Sensitivity ==
    <<"P","h","o","t","o","g","r","a","p","h","i","c"," ","S","e","n","s","i","t","i","v","i","t","y">>
K_ISO ==
    <<"I","S","O">>

FNumberKeys == <<K_FNumber>>
ApertureKeys == <<K_ExifApertureValue, K_ApertureValue, K_Aperture>>
ShutterSpeedKeys ==
    <<K_ExposureTime, K_ExifShutterSpeedValue, K_ShutterSpeedValue, K_ShutterSpeed>>
IsoKeys ==
    <<K_ExifPhotographicSensitivity, K_PhotographicSensitivity,
      K_Photographic_Sensitivity, K_ISO>>

\* the default "" of the FNumber and aperture lookups (no metadata value of the
\* model equals it)
EmptyString == -2

(***************************************************************************)
(* One viewpoint of update()'s first loop.  A viewpoint is                 *)
(* [path |-> <<dir, file>>, metadata |-> [empty |-> BOOLEAN, d |-> dict]]: *)
(* metadata.empty is an empty blob, metadata.d is json.loads of the blob.  *)
(***************************************************************************)
\* "Find Fnumber"
FromAperture(aperture) ==
    IF aperture = EmptyString THEN -1 ELSE Pow2Half(aperture)

FnumberOr(fnumber, d) ==
    IF fnumber # EmptyString THEN fnumber
    ELSE FromAperture(findMetadata(d, ApertureKeys, EmptyString))

ResolveFnumber(d) == FnumberOr(findMetadata(d, FNumberKeys, EmptyString), d)

ResolveShutterSpeed(d) == findMetadata(d, ShutterSpeedKeys, -1)

ResolveIso(d) == findMetadata(d, IsoKeys, -1)

(***************************************************************************)
(* The metadata dicts of the model.                                        *)
(***************************************************************************)
D_Unresolved == <<>>
D_Zero == << <<K_FNumber, 0>>, <<K_ExposureTime, 0>> >>
D_Plain == << <<K_FNumber, 1>>, <<K_ExposureTime, 1>> >>
D_Long == << <<K_FNumber, 1>>, <<K_ExposureTime, 2>> >>
D_Iso ==
    << <<<<"E","x","i","f",":","F","N","u","m","b","e","r">>, 1>>,
       <<<<"e","x","p","o","s","u","r","e"," ","t","i","m","e">>, 1>>,
       <<K_ISO, 100>> >>
D_Inf == << <<K_ExposureTime, 1>>, <<K_ISO, PosInf>> >>
D_Apex == << <<K_ApertureValue, 2>>, <<K_ShutterSpeed, 4>> >>

Dicts == {D_Unresolved, D_Zero, D_Plain, D_Long, D_Iso, D_Inf, D_Apex}

\* fnumber, shutterSpeed and iso as the lookups of the loop body resolve them,
\* for each dict of the model
Resolved == [d \in Dicts |-> <<ResolveFnumber(d), ResolveShutterSpeed(d), ResolveIso(d)>>]

\* "if not fnumber and not shutterSpeed": both values are falsy
NoExposure(d) == Resolved[d][1] = 0 /\ Resolved[d][2] = 0

\* (float(fnumber), float(shutterSpeed), float(iso))
ExposureTriple(d) == Resolved[d]

\* os.path.dirname
dirname(path) == path[1]

(***************************************************************************)
(* inputs.sort(): the items are the tuples (path, (fnumber, shutter, iso)) *)
(***************************************************************************)
RECURSIVE SeqLess(_, _, _)
\* lexicographic a < b on two integer tuples of the same length, from index n
SeqLess(a, b, n) ==
    IF n > Len(a) THEN FALSE
    ELSE IF a[n] # b[n] THEN a[n] < b[n]
    ELSE SeqLess(a, b, n + 1)

\* a sort that compares the exposure triples only
ItemLessByExposure(a, b) == SeqLess(a[2], b[2], 1)

\* tuple comparison of two items: the path first, then the triple
ItemLess(a, b) ==
    IF a[1] # b[1] THEN SeqLess(a[1], b[1], 1) ELSE SeqLess(a[2], b[2], 1)

\* insert x after the last element that is not greater (a stable sort)
RECURSIVE Insert(_, _)
Insert(sorted, x) ==
    IF sorted = <<>> THEN <<x>>
    ELSE IF ItemLess(x, sorted[Len(sorted)])
         THEN Append(Insert(SubSeq(sorted, 1, Len(sorted) - 1), x), sorted[Len(sorted)])
         ELSE Append(sorted, x)

RECURSIVE SortFrom(_, _, _)
SortFrom(items, n, sorted) ==
    IF n > Len(items) THEN sorted
    ELSE SortFrom(items, n + 1, Insert(sorted, items[n]))

Sort(items) == SortFrom(items, 1, <<>>)

(***************************************************************************)
(* The grouping walk "for path, exp in inputs".                            *)
(* The loop state: hasPrev is "prevPath is not None" (and "prevExposure is *)
(* not None": both are set at the end of the first iteration).             *)
(***************************************************************************)
WalkInit ==
    [exposureGroups |-> <<>>, exposures |-> <<>>, hasPrev |-> FALSE,
     prevPath |-> 0, prevExposure |-> <<0, 1>>]

\* prevPath is not None and prevPath != os.path.dirname(path)
newGroup(st, path) == st.hasPrev /\ st.prevPath # dirname(path)

\* prevExposure and currentExposure < prevExposure
SmallerExposure(st, currentExposure) ==
    /\ st.hasPrev
    /\ FracTruthy(st.prevExposure)
    /\ FracLess(currentExposure, st.prevExposure)

\* a loop body that opens the new group without the current image
PlaceDropsImage(st, path, exp, currentExposure) ==
    IF SmallerExposure(st, currentExposure) \/ newGroup(st, path)
    THEN [exposureGroups |-> Append(st.exposureGroups, st.exposures),
          exposures |-> <<>>,
          hasPrev |-> TRUE, prevPath |-> dirname(path),
          prevExposure |-> currentExposure]
    ELSE [exposureGroups |-> st.exposureGroups,
          exposures |-> Append(st.exposures, exp),
          hasPrev |-> TRUE, prevPath |-> dirname(path),
          prevExposure |-> currentExposure]

\* the loop body from "if prevExposure and ..." on
Place(st, path, exp, currentExposure) ==
    IF SmallerExposure(st, currentExposure) \/ newGroup(st, path)
    THEN [exposureGroups |-> Append(st.exposureGroups, st.exposures),
          exposures |-> <<exp>>,
          hasPrev |-> TRUE, prevPath |-> dirname(path),
          prevExposure |-> currentExposure]
    ELSE [exposureGroups |-> st.exposureGroups,
          exposures |-> Append(st.exposures, exp),
          hasPrev |-> TRUE, prevPath |-> dirname(path),
          prevExposure |-> currentExposure]

\* one iteration of the loop
WalkStep(st, item) == Place(st, item[1], item[2], getExposure(item[2], 100, 1))

RECURSIVE WalkFrom(_, _, _)
WalkFrom(inputs, n, st) ==
    IF n > Len(inputs) THEN st
    ELSE WalkFrom(inputs, n + 1, WalkStep(st, inputs[n]))

\* the loop, then exposureGroups.append(exposures)
CloseWalk(st) == Append(st.exposureGroups, st.exposures)

Walk(inputs) == CloseWalk(WalkFrom(inputs, 1, WalkInit))

(***************************************************************************)
(* The choice of the bracket count from the groups.                        *)
(***************************************************************************)
\* len(set(exposureGroups[0]))
DistinctCount(group) == Cardinality({group[i] : i \in 1..Len(group)})

\* the number of distinct exposure values of a group
DistinctExposures(group) ==
    Cardinality({i \in 1..Len(group) :
        \A j \in 1..(i - 1) :
            ~FracEq(getExposure(group[i], 100, 1), getExposure(group[j], 100, 1))})

\* a single-group branch that compares the exposure values of the members
SingleGroupByExposure(group) ==
    IF DistinctExposures(group) = 1 THEN 1 ELSE Len(group)

\* the branch "len(exposureGroups) == 1"
SingleGroup(group) ==
    IF DistinctCount(group) = 1 THEN 1 ELSE Len(group)

\* bracketSizes[len(expGroup)] after the loop over the groups
bracketSizes(exposureGroups, size) ==
    Cardinality({i \in 1..Len(exposureGroups) : Len(exposureGroups[i]) = size})

\* the keys of the Counter in insertion order
RECURSIVE CounterKeys(_, _, _)
CounterKeys(exposureGroups, n, keys) ==
    IF n > Len(exposureGroups) THEN keys
    ELSE CounterKeys(exposureGroups, n + 1,
             IF \E i \in 1..Len(keys) : keys[i] = Len(exposureGroups[n]) THEN keys
             ELSE Append(keys, Len(exposureGroups[n])))

\* Counter.most_common(): the (size, count) tuples by decreasing count, equal
\* counts in insertion order
RECURSIVE InsertByCount(_, _)
InsertByCount(sorted, t) ==
    IF sorted = <<>> THEN <<t>>
    ELSE IF t[2] > sorted[Len(sorted)][2]
         THEN Append(InsertByCount(SubSeq(sorted, 1, Len(sorted) - 1), t),
                     sorted[Len(sorted)])
         ELSE Append(sorted, t)

RECURSIVE MostCommonFrom(_, _, _, _)
MostCommonFrom(exposureGroups, keys, n, sorted) ==
    IF n > Len(keys) THEN sorted
    ELSE MostCommonFrom(exposureGroups, keys, n + 1,
             InsertByCount(sorted, <<keys[n], bracketSizes(exposureGroups, keys[n])>>))

most_common(exposureGroups) ==
    MostCommonFrom(exposureGroups, CounterKeys(exposureGroups, 1, <<>>), 1, <<>>)

\* a loop body that keeps the smaller size on equal counts
NextBestSmaller(bestTuple, tuple) ==
    IF bestTuple = <<>> \/ tuple[2] > bestTuple[2] THEN tuple
    ELSE IF tuple[2] = bestTuple[2]
         THEN (IF tuple[1] < bestTuple[1] THEN tuple ELSE bestTuple)
         ELSE bestTuple

\* one iteration of "for tuple in bracketSizes.most_common()"; <<>> is None
NextBest(bestTuple, tuple) ==
    IF bestTuple = <<>> \/ tuple[2] > bestTuple[2] THEN tuple
    ELSE IF tuple[2] = bestTuple[2]
         THEN (IF tuple[1] > bestTuple[1] THEN tuple ELSE bestTuple)
         ELSE bestTuple

RECURSIVE BestFrom(_, _, _)
BestFrom(tuples, n, bestTuple) ==
    IF n > Len(tuples) THEN bestTuple
    ELSE BestFrom(tuples, n + 1, NextBest(bestTuple, tuples[n]))

\* bestBracketSize
BestBracketSize(exposureGroups) == BestFrom(most_common(exposureGroups), 1, <<>>)[1]

(***************************************************************************)
(* State.                                                                  *)
(*   userNbBrackets, nbBrackets, validValue   attributes of the node       *)
(*       (validValue is userNbBrackets.validValue)                         *)
(*   chain       the nodes upstream of node.input, nearest first: chain[1] *)
(*       is the node node.input is linked to, chain[n + 1] the node the    *)
(*       input of chain[n] is linked to.  "CameraInit" has the attribute   *)
(*       viewpoints, "Filter" has the attribute input, "Source" has        *)
(*       neither.                                                          *)
(*   viewpoints  viewpoints.value of the CameraInit node of the chain      *)
(*   pc, outcome, inputs, exposureGroups   where update() returned and the *)
(*       values of its locals at that point                                *)
(*   fmD, fmKeys, fmResult, fmDone   a call of findMetadata                *)
(***************************************************************************)
VARIABLES userNbBrackets, nbBrackets, validValue, chain, viewpoints,
          pc, outcome, inputs, exposureGroups,
          fmD, fmKeys, fmResult, fmDone

nodeVars == <<userNbBrackets, nbBrackets, validValue, chain, viewpoints,
              pc, outcome, inputs, exposureGroups>>
fmVars == <<fmD, fmKeys, fmResult, fmDone>>
vars == <<userNbBrackets, nbBrackets, validValue, chain, viewpoints,
          pc, outcome, inputs, exposureGroups, fmD, fmKeys, fmResult, fmDone>>

(***************************************************************************)
(* LdrToHdrCalibration.update(node)                                        *)
(***************************************************************************)
\* attr.getLinkParam(recursive=True) of the input of node n of the chain (node 0
\* is the node itself): the index of the linked node, 0 for None
getLinkParam(n) == IF Len(chain) > n THEN n + 1 ELSE 0

hasViewpoints(n) == chain[n] = "CameraInit"
hasInput(n) == chain[n] = "Filter"

\* the first loop: <<stop, inputs>>, stop the reason of an early return
RECURSIVE ReadViewpoints(_, _, _)
ReadViewpoints(views, n, read) ==
    IF n > Len(views) THEN <<"", read>>
    ELSE IF views[n].metadata.empty THEN <<"noMetadata", read>>
    ELSE IF NoExposure(views[n].metadata.d) THEN <<"noExposure", read>>
    ELSE ReadViewpoints(views, n + 1,
             Append(read, <<views[n].path, ExposureTriple(views[n].metadata.d)>>))

Returned(nb, valid, where, ins, groups) ==
    [nbBrackets |-> nb, validValue |-> valid, outcome |-> where,
     inputs |-> ins, exposureGroups |-> groups]

\* the branches on len(exposureGroups)
Report(sorted, groups) ==
    IF Len(groups) = 1
    THEN Returned(SingleGroup(groups[1]), TRUE, "single", sorted, groups)
    ELSE Returned(BestBracketSize(groups), TRUE, "selected", sorted, groups)

\* the grouping walk on the sorted inputs
Group(sorted) == Report(sorted, Walk(sorted))

\* the code after the first loop
AfterRead(read) ==
    IF read[1] = "noMetadata" THEN Returned(0, TRUE, "noMetadata", <<>>, <<>>)
    ELSE IF read[1] = "noExposure" THEN Returned(1, TRUE, "noExposure", <<>>, <<>>)
    ELSE Group(Sort(read[2]))

\* the automatic detection, from "inputs = []" on
Detect == AfterRead(ReadViewpoints(viewpoints, 1, <<>>))

\* lines 202-204: the link one node further upstream, if the linked node has
\* no viewpoints and has an input
Upstream(cameraInitOutput) ==
    IF ~hasViewpoints(cameraInitOutput) /\ hasInput(cameraInitOutput)
    THEN getLinkParam(cameraInitOutput)
    ELSE cameraInitOutput

\* the code from line 205 on
DetectFrom(cameraInitOutput) ==
    IF cameraInitOutput # 0 /\ hasViewpoints(cameraInitOutput) THEN Detect
    ELSE Returned(0, TRUE, "noCameraInit", <<>>, <<>>)

\* the code from "if node.userNbBrackets.value != 0" on
Linked(cameraInitOutput) ==
    IF userNbBrackets # 0
    THEN Returned(userNbBrackets,
                  IF hasViewpoints(cameraInitOutput)
                  THEN Len(viewpoints) % userNbBrackets = 0
                  ELSE TRUE,
                  "user", <<>>, <<>>)
    ELSE DetectFrom(Upstream(cameraInitOutput))

UpdateResult ==
    IF getLinkParam(0) = 0 THEN Returned(0, TRUE, "notLinked", <<>>, <<>>)
    ELSE Linked(getLinkParam(0))

Assign(r) ==
    /\ nbBrackets' = r.nbBrackets
    /\ validValue' = r.validValue
    /\ outcome' = r.outcome
    /\ inputs' = r.inputs
    /\ exposureGroups' = r.exposureGroups

update ==
    /\ Assign(UpdateResult)
    /\ pc' = "updated"
    /\ UNCHANGED <<userNbBrackets, chain, viewpoints>>
    /\ UNCHANGED fmVars

(***************************************************************************)
(* The node graphs and viewpoint lists of the model.                       *)
(***************************************************************************)
\* the sequences over S of length at most n
SeqsUpTo(S, n) == UNION {[1..m -> S] : m \in 0..n}

Metadatas ==
    {[empty |-> TRUE, d |-> <<>>]} \cup {[empty |-> FALSE, d |-> d] : d \in Dicts}

Paths == {<<1, 1>>, <<1, 2>>, <<2, 1>>}

Viewpoints == {[path |-> p, metadata |-> m] : p \in Paths, m \in Metadatas}

\* only a Filter has an input to link further
Chains ==
    {c \in SeqsUpTo({"CameraInit", "Filter", "Source"}, MaxChain) :
        \A i \in 1..(Len(c) - 1) : c[i] = "Filter"}

HasCameraInit(c) == \E i \in 1..Len(c) : c[i] = "CameraInit"

FmIdle ==
    /\ fmD = <<>>
    /\ fmKeys = <<>>
    /\ fmResult = 0
    /\ fmDone = FALSE

NodeFresh ==
    /\ nbBrackets = 0
    /\ pc = "init"
    /\ outcome = "none"
    /\ inputs = <<>>
    /\ exposureGroups = <<>>

\* any node graph, before update() has run; validValue is what an earlier
\* update() left
Init ==
    /\ userNbBrackets \in 0..MaxUserNbBrackets
    /\ chain \in Chains
    /\ viewpoints \in (IF HasCameraInit(chain) THEN SeqsUpTo(Viewpoints, MaxViews)
                       ELSE {<<>>})
    /\ validValue \in BOOLEAN
    /\ NodeFresh
    /\ FmIdle

Next == update

Spec == Init /\ [][Next]_vars

\* automatic detection on the viewpoints of a directly linked CameraInit
InitGroup ==
    /\ userNbBrackets = 0
    /\ chain = <<"CameraInit">>
    /\ viewpoints \in SeqsUpTo(Viewpoints, MaxGroupViews)
    /\ validValue = TRUE
    /\ NodeFresh
    /\ FmIdle

SpecGroup == InitGroup /\ [][Next]_vars

(***************************************************************************)
(* Calls of findMetadata.                                                  *)
(***************************************************************************)
FmDefault == -1

findMetadataCall ==
    /\ ~fmDone
    /\ fmResult' = findMetadata(fmD, fmKeys, FmDefault)
    /\ fmDone' = TRUE
    /\ UNCHANGED <<fmD, fmKeys>>
    /\ UNCHANGED nodeVars

Chars == {"a", "A", " ", ":", "/"}

\* the non-empty keys over Chars of at most MaxKeyLen characters
LongKeys == SeqsUpTo(Chars, MaxKeyLen) \ {<<>>}

ShortKeys ==
    {<<"a">>, <<"A">>, <<"b">>, <<":", "a">>, <<"a", " ">>, <<":", "b">>}

NodeIdle ==
    /\ userNbBrackets = 0
    /\ chain = <<>>
    /\ viewpoints = <<>>
    /\ validValue = TRUE
    /\ NodeFresh

\* one alias against a dict of at most one key, over all keys of at most
\* MaxKeyLen characters; one or two aliases against a dict of at most two keys
InitFM ==
    /\ \/ /\ fmKeys \in {<<k>> : k \in LongKeys}
          /\ fmD \in {<<>>} \cup {<< <<k, 1>> >> : k \in LongKeys}
       \/ /\ fmKeys \in {<<k>> : k \in ShortKeys}
                        \cup {<<k1, k2>> : k1 \in ShortKeys, k2 \in ShortKeys}
          /\ fmD \in {<<>>} \cup {<< <<k, 1>> >> : k \in ShortKeys}
                    \cup {dd \in {<< <<k1, 1>>, <<k2, 2>> >> :
                                     k1 \in ShortKeys, k2 \in ShortKeys} :
                             dd[1][1] # dd[2][1]}
    /\ fmResult = 0
    /\ fmDone = FALSE
    /\ NodeIdle

NextFM == findMetadataCall

SpecFM == InitFM /\ [][NextFM]_vars

(***************************************************************************)
(* Properties of update().                                                 *)
(***************************************************************************)
Updated == pc = "updated"

\* update() reached the grouping walk
Grouped == Updated /\ outcome \in {"single", "selected"}

\* update() entered the automatic detection (the code from "inputs = []" on)
Detected == Updated /\ outcome \in {"noMetadata", "noExposure", "single", "selected"}

\* the number of images upstream of the node
TotalImages == IF HasCameraInit(chain) THEN Len(viewpoints) ELSE 0

\* automatic mode with the viewpoints of a CameraInit at hand
Automatic ==
    /\ Updated
    /\ userNbBrackets = 0
    /\ chain \in {<<"CameraInit">>, <<"Filter", "CameraInit">>}

AllHaveMetadata == \A i \in 1..Len(viewpoints) : ~viewpoints[i].metadata.empty

\* neither the aperture nor the shutter speed of the dict resolves
Unresolvable(d) ==
    /\ \A n \in 1..Len(FNumberKeys) : ~KeyFound(d, FNumberKeys[n])
    /\ \A n \in 1..Len(ApertureKeys) : ~KeyFound(d, ApertureKeys[n])
    /\ \A n \in 1..Len(ShutterSpeedKeys) : ~KeyFound(d, ShutterSpeedKeys[n])

RECURSIVE Flatten(_)
Flatten(groups) ==
    IF groups = <<>> THEN <<>> ELSE Head(groups) \o Flatten(Tail(groups))

Occurrences(x, q) == Cardinality({i \in 1..Len(q) : q[i] = x})

Range(q) == {q[i] : i \in 1..Len(q)}

\* the exposure triples of the viewpoints, in the order of the list
ViewTriples == [i \in 1..Len(viewpoints) |-> ExposureTriple(viewpoints[i].metadata.d)]

\* the (path, triple) items of the viewpoints, in the order of the list
ViewItems ==
    [i \in 1..Len(viewpoints) |->
        <<viewpoints[i].path, ExposureTriple(viewpoints[i].metadata.d)>>]

ExposureOf(item) == getExposure(item[2], 100, 1)

\* the positions of inputs at which a group of exposureGroups starts
GroupStarts ==
    {1 + Len(Flatten(SubSeq(exposureGroups, 1, k))) : k \in 1..(Len(exposureGroups) - 1)}

\* the number of groups of a size
GroupsOfSize(size) ==
    Cardinality({i \in 1..Len(exposureGroups) : Len(exposureGroups[i]) = size})

GroupSizes == {Len(exposureGroups[i]) : i \in 1..Len(exposureGroups)}

\* C1: whenever userNbBrackets is nonzero, update() sets nbBrackets to
\* userNbBrackets and does not enter the automatic detection, whatever the
\* link of the input, the linked node and the viewpoints are.
C1_UserOverrideAlwaysUsed ==
    (Updated /\ userNbBrackets # 0) =>
        (nbBrackets = userNbBrackets /\ ~Detected)

\* C2: after update() with a nonzero userNbBrackets, validValue is true if and
\* only if userNbBrackets divides the total number of input images, also when
\* the images are one link further upstream than the linked node.
C2_ValidIffDivides ==
    (Updated /\ userNbBrackets # 0) =>
        (validValue <=> (TotalImages % userNbBrackets = 0))

\* C3: the groups built by the walk are a partition of the images: the groups
\* in order hold the exposure triples of the walked items in order, every
\* triple of the viewpoints occurs in the groups as often as among the
\* viewpoints, and the group sizes sum to the number of images.
C3_GroupsPartitionInput ==
    Grouped =>
        /\ Len(Flatten(exposureGroups)) = Len(viewpoints)
        /\ Flatten(exposureGroups) = [i \in 1..Len(inputs) |-> inputs[i][2]]
        /\ \A t \in Range(ViewTriples) \cup Range(Flatten(exposureGroups)) :
              Occurrences(t, Flatten(exposureGroups)) = Occurrences(t, ViewTriples)

\* C3 witness: three images walked into two groups, one of them of two images
C3_Witness ==
    /\ Grouped
    /\ Len(viewpoints) = 3
    /\ Len(exposureGroups) = 2
    /\ \E i \in 1..2 : Len(exposureGroups[i]) = 2

\* C4: in automatic mode with metadata on every viewpoint, if neither the
\* aperture nor the shutter speed of some image resolves, update() stops
\* without grouping and nbBrackets is 1 (stated here by the value of
\* nbBrackets alone).
C4_UnresolvableGivesOne ==
    (/\ Automatic
     /\ AllHaveMetadata
     /\ \E i \in 1..Len(viewpoints) : Unresolvable(viewpoints[i].metadata.d))
        => nbBrackets = 1

\* C5: in automatic mode, if any viewpoint of the list has an empty metadata
\* blob, nbBrackets is 0, wherever the viewpoint is in the list and whatever
\* the metadata of the others is.
C5_MissingMetadataGivesZero ==
    (/\ Automatic
     /\ \E i \in 1..Len(viewpoints) : viewpoints[i].metadata.empty)
        => nbBrackets = 0

KeyOf(item) == item[1] \o item[2]

\* a <= b, lexicographically, on two tuples of the same length
LexLeq(a, b) ==
    \/ a = b
    \/ \E n \in 1..Len(a) : a[n] < b[n] /\ \A m \in 1..(n - 1) : a[m] = b[m]

\* C8 as stated: the walk visits the images in ascending order of the exposure
\* triple (aperture, shutter speed, sensitivity), the path being no part of
\* the sort key.
C8_WalkInTripleOrder ==
    Grouped =>
        \A i \in 1..Len(inputs) : \A j \in i..Len(inputs) :
            LexLeq(inputs[i][2], inputs[j][2])

\* C8 amended: the walk visits the images in ascending order of the pair
\* (path, exposure triple): the path is the first sort key and the triple
\* (aperture, shutter speed, sensitivity) orders the images of the same path;
\* the walked items are the items of the viewpoints.
C8_WalkInPathThenTripleOrder ==
    Grouped =>
        /\ \A i \in 1..Len(inputs) : \A j \in i..Len(inputs) :
              LexLeq(KeyOf(inputs[i]), KeyOf(inputs[j]))
        /\ Len(inputs) = Len(viewpoints)
        /\ \A x \in Range(inputs) \cup Range(ViewItems) :
              Occurrences(x, inputs) = Occurrences(x, ViewItems)

\* C8 witness: an image walked before another of a smaller triple, and two
\* images of the same path walked in the order of their triples
C8_Witness ==
    /\ Grouped
    /\ \E i \in 1..Len(inputs) : \E j \in i..Len(inputs) :
          /\ ~LexLeq(inputs[i][2], inputs[j][2])
    /\ \E i \in 1..Len(inputs) : \E j \in i..Len(inputs) :
          /\ inputs[i][1] = inputs[j][1]
          /\ inputs[i][2] # inputs[j][2]

\* C9: every walked image but the first starts a new group if and only if its
\* directory differs from the previous image's or its exposure value is
\* strictly less than the previous image's, also when the previous exposure
\* value is 0.
C9_NewGroupIffBoundaryOrSmaller ==
    Grouped =>
        \A i \in 2..Len(inputs) :
            (i \in GroupStarts) <=>
                \/ dirname(inputs[i][1]) # dirname(inputs[i - 1][1])
                \/ FracLess(ExposureOf(inputs[i]), ExposureOf(inputs[i - 1]))

SameExposure(group) ==
    \A i \in 1..Len(group) : \A j \in 1..Len(group) :
        FracEq(getExposure(group[i], 100, 1), getExposure(group[j], 100, 1))

DistinctExposure(group) ==
    \A i \in 1..Len(group) : \A j \in 1..Len(group) :
        i # j => ~FracEq(getExposure(group[i], 100, 1), getExposure(group[j], 100, 1))

SameTriple(group) ==
    \A i \in 1..Len(group) : \A j \in 1..Len(group) : group[i] = group[j]

\* C10 as stated: with a single (non-empty) group, nbBrackets is 1 if all
\* members have the same exposure value, also when their triples differ, and
\* the group size when the exposure values are all distinct.
C10_SingleGroupByExposureValue ==
    (Updated /\ outcome = "single" /\ Len(exposureGroups[1]) >= 1) =>
        /\ SameExposure(exposureGroups[1]) => nbBrackets = 1
        /\ DistinctExposure(exposureGroups[1]) => nbBrackets = Len(exposureGroups[1])

\* C10 amended: with a single (non-empty) group, nbBrackets is 1 if all members
\* have the same (aperture, shutter speed, sensitivity) triple, and the group
\* size otherwise, in particular when the exposure values are all distinct;
\* members of different triples and the same exposure value count as several
\* exposures.
C10_SingleGroupByTriple ==
    (Updated /\ outcome = "single" /\ Len(exposureGroups[1]) >= 1) =>
        /\ SameTriple(exposureGroups[1]) => nbBrackets = 1
        /\ ~SameTriple(exposureGroups[1]) => nbBrackets = Len(exposureGroups[1])
        /\ DistinctExposure(exposureGroups[1]) => nbBrackets = Len(exposureGroups[1])

\* C10 witness: a single group of members of one exposure value and of
\* different triples
C10_Witness ==
    /\ Updated
    /\ outcome = "single"
    /\ Len(exposureGroups[1]) >= 2
    /\ SameExposure(exposureGroups[1])
    /\ ~SameTriple(exposureGroups[1])
    /\ nbBrackets = Len(exposureGroups[1])

(***************************************************************************)
(* Properties of findMetadata.                                             *)
(***************************************************************************)
Separators == {":", "/"}

\* the text of s behind its namespace prefix (text up to the last ':' or '/'),
\* s itself if it has none
BehindPrefix(s) ==
    LET seps == {n \in 1..Len(s) : s[n] \in Separators}
    IN  IF seps = {} THEN s
        ELSE LET last == CHOOSE n \in seps : \A m \in seps : m <= n
             IN  [m \in 1..(Len(s) - last) |-> s[last + m]]

HasPrefix(s) == \E n \in 1..Len(s) : s[n] \in Separators

SameLetters(s, t) ==
    /\ Len(s) = Len(t)
    /\ \A n \in 1..Len(s) : LowerChar(s[n]) = LowerChar(t[n])

HasLetter(s) == \E n \in 1..Len(s) : s[n] \notin Separators \cup {" "}

\* the two spellings differ only by letter case, only by spaces, or only by a
\* namespace prefix, on either side
DifferOnlyBySpelling(alias, dk) ==
    \/ SameLetters(alias, dk)
    \/ RemoveSpaces(alias) = RemoveSpaces(dk)
    \/ HasPrefix(dk) /\ BehindPrefix(dk) = alias
    \/ HasPrefix(alias) /\ BehindPrefix(alias) = dk

\* the record key matches the alias: it is the alias, or without its spaces it
\* has the letters of the alias, as a whole or behind a namespace prefix
KeyMatchesAlias(alias, dk) ==
    \/ dk = alias
    \/ SameLetters(RemoveSpaces(dk), alias)
    \/ SameLetters(BehindPrefix(RemoveSpaces(dk)), alias)

AliasMatches(n) == \E i \in 1..Len(fmD) : KeyMatchesAlias(fmKeys[n], fmD[i][1])

\* C7 as stated: findMetadata returns the value of the record key whenever the
\* alias and the record key differ only by letter case, by spaces or by a
\* namespace prefix, whichever of the two carries the spaces or the prefix.
C7_MatchesEitherSide ==
    (fmDone /\ Len(fmKeys) = 1 /\ Len(fmD) = 1
            /\ HasLetter(fmKeys[1]) /\ HasLetter(fmD[1][1])
            /\ DifferOnlyBySpelling(fmKeys[1], fmD[1][1]))
        => fmResult = fmD[1][2]

\* C7 amended: findMetadata returns the value of a record key for the first
\* alias that some record key matches, where a record key matches an alias if
\* it is the alias exactly, or if the record key without its spaces equals the
\* alias up to letter case, as a whole or after its namespace prefix (text up
\* to the last ':' or '/') is dropped; spaces and prefixes of the alias are
\* never dropped.  A record key identical to the alias wins over the other
\* record keys, else the first matching record key in record order does.  It
\* returns the default only when no alias matches any record key in this way.
C7_MatchesRecordSide ==
    fmDone =>
        /\ (fmResult = FmDefault) <=> (\A n \in 1..Len(fmKeys) : ~AliasMatches(n))
        /\ \A n \in 1..Len(fmKeys) :
              (AliasMatches(n) /\ \A m \in 1..(n - 1) : ~AliasMatches(m)) =>
                  \E i \in 1..Len(fmD) :
                      /\ KeyMatchesAlias(fmKeys[n], fmD[i][1])
                      /\ fmResult = fmD[i][2]
                      /\ \A j \in 1..Len(fmD) :
                            \/ j = i
                            \/ fmD[i][1] = fmKeys[n]
                            \/ /\ fmD[j][1] # fmKeys[n]
                               /\ (j < i => ~KeyMatchesAlias(fmKeys[n], fmD[j][1]))

\* C7 witness: a record key with an upper-case letter and a namespace prefix
\* found for a lower-case alias
C7_Witness ==
    /\ fmDone
    /\ fmKeys = << <<"a">> >>
    /\ Len(fmD) = 1
    /\ fmD[1][1] = <<"a", ":", "A">>
    /\ fmResult = fmD[1][2]

=============================================================================
